---- MODULE Spec2Model ----
(***************************************************************************)
(* Edugen backend: the asynchronous content-generation job lifecycle.      *)
(*                                                                         *)
(* The model covers the request handlers of projects/views.py              *)
(* (generate_content, generate_podcast_script, generate_podcast_audio),   *)
(* the Celery tasks of projects/tasks.py (generate_content_task,           *)
(* generate_audio_task), the GeneratedContent table, the owner's           *)
(* UserProfile row and the generated blobs in object storage.              *)
(*                                                                         *)
(* Every request is one slot r in 1..MaxRequests.  A handler and the task  *)
(* it dispatched are separate processes; each database or storage access   *)
(* is one atomic step, so handlers and tasks interleave between accesses.  *)
(* Money is counted in units of 0.0001 (token_balance has 4 decimals).     *)
(***************************************************************************)
EXTENDS Integers, Sequences, FiniteSets, TLC

\* ------------------------------------------------------------------ bounds
MaxRequests == 2
\* chat messages posted in a run
MaxPosts == 2
\* podcast requests of the experimental backend in a run
MaxCalls == 2

\* ------------------------------------------------------- program constants
\* views.py:90 and :137: token_balance < 0.09, in units of 0.0001.
\* Decimal('0.0900') < 0.09 is False in Python (the float 0.09 is slightly
\* below 9/100), Decimal('0.0899') < 0.09 is True: the test is "< 900".
THRESHOLD == 900
\* users/models.py:10: token_balance default=5.00
DefaultBalance == 50000

Projects == {1}
Kinds == {"PPT", "FLASH", "MCQ", "POD"}
\* content_type values the modelled requests carry: two of the closed set
\* (PPT stands for the three kinds with a generation routine) and an outsider
ContentTypes == {"PPT", "POD", "BAD"}
\* costs a generation routine may report (units of 0.0001)
Costs == {0, 1}
\* token counts a usage record may report
TokenCounts == {0, 1}
\* model identifiers calculate_cost may be asked about: the one every caller
\* passes, and one the price table does not list
ModelNames == {"gpt-5-nano", "gpt-unlisted"}
\* token balances an existing profile may start with
InitBalances == {THRESHOLD}

PENDING == "PENDING"
SUCCESS == "SUCCESS"
FAILURE == "FAILURE"
Terminal == {SUCCESS, FAILURE}

Null == <<>>
NoTask == 0
Slots == 1..MaxRequests
\* extracted texts, as sequences of characters
Whitespace == {" ", "\n"}
Texts == {<<>>, <<" ", "\n">>, <<" ", "a", "\n">>}
\* one text with content: a blank text ends a task as a failed extraction does
PlainTexts == {<<"a">>}
\* the Celery worker processes: each executes one task at a time
WorkerPool == {"w1", "w2"}

\* ---------------------------------------------------------------- storage
\* tasks.py:82 / :134  generated/{project.id}/{content_record.id}_{basename}
FileName(kind) ==
  CASE kind = "PPT" -> "presentation.pptx"
    [] kind = "FLASH" -> "flashcards.json"
    [] kind = "MCQ" -> "mcqs.json"
    [] OTHER -> "podcast.mp3"

GeneratedKey(project, id, file) == <<"generated", project, id, file>>

\* tasks.py:86 / :138  https://{bucket}.s3.amazonaws.com/{key}
UrlOfKey(key) == <<"https://bucket.s3.amazonaws.com/">> \o key

\* tasks.py:22 / :110  s3_url.split('.com/', 1)[1]
KeyOfUrl(url) == Tail(url)

VARIABLES
  rows,      \* GeneratedContent table: sequence, index = primary key
  profile,   \* UserProfile rows of the owner: <<>> or <<token_balance>>
  blobs,     \* keys of the generated objects present in storage
  req,       \* per slot: the request handler's position and locals
  job,       \* per slot: the dispatched task's position and locals
  nreq,      \* number of requests received so far
  response,  \* the HTTP response sent last: <<handler, status>>
  base,      \* history: the balance the owner's profile started with
  settled,   \* history: sum of the costs handed to a settlement
  server,    \* server.py: the collections of the experimental backend
             \* and its podcast requests under way
  chat,      \* chat: the ChatSession and ChatMessage tables, the task queue
  tmp        \* the worker host's /tmp: for each path written so far, the
             \* project the file written there last was generated from

\* server.py:60-70  the collections, and the position of each podcast request
mcqs_collection == server.mcqs_collection
slides_collection == server.slides_collection
slide_images_collection == server.slide_images_collection
podcasts_collection == server.podcasts_collection
calls == server.calls

\* chat/models.py  ChatSession rows by project, ChatMessage rows in order of
\* creation; the sessions of the dispatched answer tasks
chat_sessions == chat.sessions
chat_messages == chat.messages
chat_queue == chat.queue

vars == <<rows, profile, blobs, req, job, nreq, response, base, settled,
          server, chat, tmp>>

\* in-memory model instance: the columns a save() writes back
NoRec == [id |-> 0, status |-> "", url |-> Null, task_id |-> NoTask]

IdleReq == [op |-> "none", pc |-> "none", project |-> 0, kind |-> "",
            rec |-> NoRec, bal |-> 0]
DoneReq == [IdleReq EXCEPT !.pc = "done"]

IdleJob == [task |-> "none", pc |-> "none", id |-> 0, rec |-> NoRec,
            url0 |-> Null, prior |-> Null, bal |-> 0, swallowed |-> FALSE]
DoneJob == [IdleJob EXCEPT !.pc = "done"]

InitWith(profiles) ==
  /\ rows = <<>>
  /\ profile \in profiles
  /\ blobs = {}
  /\ req = [r \in Slots |-> IdleReq]
  /\ job = [r \in Slots |-> IdleJob]
  /\ nreq = 0
  /\ response = <<>>
  /\ base = IF profile = <<>> THEN DefaultBalance ELSE profile[1]
  /\ settled = 0
  /\ server = [mcqs_collection |-> <<>>, slides_collection |-> <<>>,
               slide_images_collection |-> {}, podcasts_collection |-> <<>>,
               calls |-> <<>>]
  /\ chat = [sessions |-> <<>>, messages |-> <<>>, queue |-> <<>>]
  /\ tmp = {}

\* The owner has no profile yet, or one whose balance is at the threshold.
Init == InitWith({<<>>} \cup {<<b>> : b \in InitBalances})

\* ------------------------------------------------------------- ORM helpers
\* UserProfile.objects.get_or_create(user=user): the existing row, or a new
\* one with the default balance.
GetOrCreateProfile(pr) == IF pr = <<>> THEN <<DefaultBalance>> ELSE pr

\* a profile table without the one-to-one constraint
ProfileUniqueViolation_NoConstraint(pr) == FALSE

\* users/models.py:9  user = OneToOneField(User): the database refuses a
\* second UserProfile row for the user.
ProfileUniqueViolation(pr) == pr # <<>>

RowIds(p, k) == {i \in DOMAIN rows : rows[i].project = p /\ rows[i].kind = k}

\* a table without the unique constraint: no INSERT is refused
UniqueViolation_NoConstraint(p, k) == FALSE

\* Meta.unique_together = ('project', 'content_type'): the database refuses
\* an INSERT when a row with this (project, content_type) exists.
UniqueViolation(p, k) == RowIds(p, k) # {}

\* Model.save() without update_fields: every column of the row is written
\* from the in-memory instance.
SaveRecord(table, rec) ==
  [table EXCEPT ![rec.id] = [@ EXCEPT !.status = rec.status,
                                      !.url = rec.url,
                                      !.task_id = rec.task_id]]

\* token_balance = token_balance - cost computed in Python: the value the
\* instance was loaded with goes back to the column
SettleCost_ReadModifyWrite(stored, seen, cost) == seen - cost

\* F('token_balance') - cost, then save(): UPDATE ... SET token_balance =
\* token_balance - cost.  `stored` is the column, `seen` the value the
\* in-memory instance was loaded with.
SettleCost(stored, seen, cost) == stored - cost

\* a balance check that also refuses a balance equal to the threshold
InsufficientTokens_Inclusive(bal) == bal <= THRESHOLD

\* views.py:90 / :137  if user_profile.token_balance < 0.09: 400
InsufficientTokens(bal) == bal < THRESHOLD

\* ------------------------------------------------------------ serializers
\* serializers.py:53, :59, :66  the count option of a kind:
\* IntegerField(min_value, max_value, default)
CountField ==
  [PPT |-> [min |-> 3, max |-> 20, default |-> 10],
   FLASH |-> [min |-> 5, max |-> 50, default |-> 20],
   MCQ |-> [min |-> 5, max |-> 30, default |-> 15]]

\* serializers.py:72  podcast_length = ChoiceField(choices, default="medium")
LengthChoices == {"quick", "medium", "comprehensive"}

\* The option a request carries: <<>> when the key is absent, <<v>> otherwise.
CountInputs == {<<>>} \cup {<<v>> : v \in {2, 3, 4, 5, 20, 21, 30, 31, 50, 51}}
LengthInputs == {<<>>, <<"medium">>, <<"comprehensive">>, <<"endless">>}
OptionInputs(ct) == IF ct \in DOMAIN CountField THEN CountInputs ELSE LengthInputs

\* an integer field that brings an out-of-range value to the nearest limit
IntegerField_Clamping(f, opt) ==
  IF opt = <<>>
    THEN [valid |-> TRUE, value |-> f.default]
    ELSE [valid |-> TRUE,
          value |-> IF opt[1] < f.min THEN f.min
                    ELSE IF opt[1] > f.max THEN f.max ELSE opt[1]]

\* rest_framework IntegerField as declared in serializers.py:53: an absent
\* key takes the default, a value below min_value or above max_value is a
\* validation error, any other value is kept.
IntegerField(f, opt) ==
  IF opt = <<>>
    THEN [valid |-> TRUE, value |-> f.default]
    ELSE IF opt[1] < f.min \/ opt[1] > f.max
      THEN [valid |-> FALSE, value |-> opt[1]]
      ELSE [valid |-> TRUE, value |-> opt[1]]

\* rest_framework ChoiceField as declared in serializers.py:72
ChoiceField(choices, default, opt) ==
  IF opt = <<>>
    THEN [valid |-> TRUE, value |-> default]
    ELSE [valid |-> opt[1] \in choices, value |-> opt[1]]

\* views.py:93-98  serializer_map.get(content_type), is_valid
ValidatedOption(kind, opt) ==
  IF kind \in DOMAIN CountField
    THEN IntegerField(CountField[kind], opt)
    ELSE ChoiceField(LengthChoices, "medium", opt)

OptionsValid(ct, opt) == ct \in Kinds /\ ValidatedOption(ct, opt).valid

\* serializers.py:53, :59, :66  the name of each kind's count field, which is
\* its key in serializer.validated_data
SerializerKey ==
  [PPT |-> "slides_count", FLASH |-> "cards_count", MCQ |-> "questions_count"]

\* utils.py:86, :168, :207  options.get(<key>, <default>) at the head of
\* generate_ppt_from_text, generate_flashcards_from_text and
\* generate_mcqs_from_text
RoutineKey ==
  [PPT |-> [key |-> "slide_count", default |-> 8],
   FLASH |-> [key |-> "cards_count", default |-> 20],
   MCQ |-> [key |-> "questions_count", default |-> 15]]

\* views.py:97-100  generations_options = serializer.validated_data: the
\* count under the serializer's field name (an absent key has taken the
\* field's default)
validated_data(kind, opt) ==
  [k \in {SerializerKey[kind]} |-> ValidatedOption(kind, opt).value]

\* The count a generation routine puts into its prompt, read from the
\* options the task was given.
RequestedCount(kind, options) ==
  IF RoutineKey[kind].key \in DOMAIN options
    THEN options[RoutineKey[kind].key]
    ELSE RoutineKey[kind].default

\* The counts a request may carry.
CountRange == {<<>>} \cup {<<v>> : v \in 0..52}

\* ---------------------------------------------------------------- handlers
\* views.py:80-101  generate_content up to serializer.is_valid
\* views.py:126-138 generate_podcast_script up to the balance check
\* views.py:155-159 generate_podcast_audio up to serializer.is_valid
\* `owned`: get_object() finds the project among the caller's projects.
\* `valid`: the kind's serializer accepts the request data.
Reject(r, op, code) ==
  /\ req' = [req EXCEPT ![r] = DoneReq]
  /\ response' = <<op, code>>

Admit(r, op, p, ct, next, seen) ==
  /\ req' = [req EXCEPT ![r] = [IdleReq EXCEPT !.op = op, !.pc = next,
                                 !.project = p, !.kind = ct, !.bal = seen]]
  /\ UNCHANGED response

GenerateContentRequest(p, owned, ct, valid) ==
  LET r == nreq + 1
      pr == GetOrCreateProfile(profile)
  IN /\ nreq < MaxRequests
     /\ nreq' = r
     /\ UNCHANGED <<rows, blobs, job, base, settled, server, chat, tmp>>
     /\ IF ~owned
          THEN Reject(r, "content", "404") /\ UNCHANGED profile
          ELSE /\ profile' = pr
               /\ IF InsufficientTokens(pr[1])
                    THEN Reject(r, "content", "400_tokens")
                    ELSE IF ct \notin Kinds
                      THEN Reject(r, "content", "400_type")
                      ELSE IF ~valid
                        THEN Reject(r, "content", "400_invalid")
                        ELSE Admit(r, "content", p, ct, "upsert", 0)

GeneratePodcastScriptRequest(p, owned, valid) ==
  LET r == nreq + 1
      pr == GetOrCreateProfile(profile)
  IN /\ nreq < MaxRequests
     /\ nreq' = r
     /\ UNCHANGED <<rows, blobs, job, base, settled, server, chat, tmp>>
     /\ IF ~owned
          THEN Reject(r, "script", "404") /\ UNCHANGED profile
          ELSE IF ~valid
            THEN Reject(r, "script", "400_invalid") /\ UNCHANGED profile
            ELSE /\ profile' = pr
                 /\ IF InsufficientTokens(pr[1])
                      THEN Reject(r, "script", "400_tokens")
                      ELSE Admit(r, "script", p, "POD", "script", pr[1])

GeneratePodcastAudioRequest(p, owned, valid) ==
  LET r == nreq + 1
  IN /\ nreq < MaxRequests
     /\ nreq' = r
     /\ UNCHANGED <<rows, blobs, job, base, settled, profile, server, chat, tmp>>
     /\ IF ~owned
          THEN Reject(r, "audio", "404")
          ELSE IF ~valid
            THEN Reject(r, "audio", "400_invalid")
            ELSE Admit(r, "audio", p, "POD", "upsert", 0)

\* users/signals.py:22-37  create_user_profile_on_login: user.profile is
\* read; DoesNotExist sends the handler to UserProfile.objects.create.
LoginRequest ==
  LET r == nreq + 1
  IN /\ nreq < MaxRequests
     /\ nreq' = r
     /\ UNCHANGED <<rows, profile, blobs, job, base, settled, server, chat, tmp>>
     /\ IF profile # <<>>
          THEN /\ req' = [req EXCEPT ![r] = DoneReq]
               /\ response' = <<"login", "200">>
          ELSE /\ req' = [req EXCEPT ![r] = [IdleReq EXCEPT !.op = "login",
                                                          !.pc = "profile"]]
               /\ UNCHANGED response

\* users/signals.py:32  UserProfile.objects.create(user=user): an INSERT,
\* which raises IntegrityError out of the handler when the row exists.
LoginCreate(r) ==
  /\ req[r].pc = "profile"
  /\ req' = [req EXCEPT ![r] = DoneReq]
  /\ UNCHANGED <<rows, blobs, job, nreq, base, settled, server, chat, tmp>>
  /\ IF ProfileUniqueViolation(profile)
       THEN /\ response' = <<"login", "500">>
            /\ UNCHANGED profile
       ELSE /\ response' = <<"login", "200">>
            /\ profile' = Append(profile, DefaultBalance)

\* users/views.py:11-21  UserProfileAPIView.get: get_or_create, 200.
UserProfileRequest ==
  LET r == nreq + 1
  IN /\ nreq < MaxRequests
     /\ nreq' = r
     /\ profile' = GetOrCreateProfile(profile)
     /\ req' = [req EXCEPT ![r] = DoneReq]
     /\ response' = <<"profile", "200">>
     /\ UNCHANGED <<rows, blobs, job, base, settled, server, chat, tmp>>

\* views.py:103-113 / :162-172  update_or_create(project, content_type,
\* defaults={PENDING, None}) followed by <task>.delay(content_record.id, ..).
\* update_or_create is get_or_create under select_for_update: a found row is
\* updated in place under its lock; a missing row is INSERTed in a second
\* statement, which the unique constraint may refuse, and then the existing
\* row is fetched and updated.
\* `prior` keeps, until the task starts, the URL of the successful row this
\* request reset, if it reset one (history: no code reads it).
Dispatch_Nothing(r, id, prior) == UNCHANGED job

Dispatch(r, id, prior) ==
  job' = [job EXCEPT ![r] = [IdleJob EXCEPT
             !.task = IF req[r].op = "audio" THEN "audio" ELSE "content",
             !.pc = "queued", !.id = id, !.prior = prior]]

ResetExisting(r, id) ==
  LET rec == [id |-> id, status |-> PENDING, url |-> Null,
              task_id |-> rows[id].task_id]
  IN /\ rows' = SaveRecord(rows, rec)
     /\ req' = [req EXCEPT ![r].rec = rec, ![r].pc = "save"]
     /\ Dispatch(r, id, IF rows[id].status = SUCCESS THEN rows[id].url ELSE Null)

InsertNew(r) ==
  LET id == Len(rows) + 1
      rec == [id |-> id, status |-> PENDING, url |-> Null, task_id |-> NoTask]
  IN /\ rows' = Append(rows, [project |-> req[r].project, kind |-> req[r].kind,
                              status |-> PENDING, url |-> Null,
                              task_id |-> NoTask])
     /\ req' = [req EXCEPT ![r].rec = rec, ![r].pc = "save"]
     /\ Dispatch(r, id, Null)

UpsertLookup(r) ==
  /\ req[r].pc = "upsert"
  /\ UNCHANGED <<profile, blobs, nreq, response, base, settled, server, chat, tmp>>
  /\ IF RowIds(req[r].project, req[r].kind) # {}
       THEN ResetExisting(r, CHOOSE i \in RowIds(req[r].project, req[r].kind) : TRUE)
       ELSE /\ req' = [req EXCEPT ![r].pc = "create"]
            /\ UNCHANGED <<rows, job>>

UpsertCreate(r) ==
  /\ req[r].pc = "create"
  /\ UNCHANGED <<profile, blobs, nreq, response, base, settled, server, chat, tmp>>
  /\ IF UniqueViolation(req[r].project, req[r].kind)
       THEN ResetExisting(r, CHOOSE i \in RowIds(req[r].project, req[r].kind) : TRUE)
       ELSE InsertNew(r)

\* views.py:116-122 / :175-181  content_record.task_id = task.id;
\* content_record.save(); 202 with task_id and content_id.
\* The task id is the slot number.
HandlerSave(r) ==
  /\ req[r].pc = "save"
  /\ rows' = SaveRecord(rows, [req[r].rec EXCEPT !.task_id = r])
  /\ req' = [req EXCEPT ![r] = DoneReq]
  /\ response' = <<req[r].op, "202">>
  /\ UNCHANGED <<profile, blobs, job, nreq, base, settled, server, chat, tmp>>

\* views.py:140-151  download, extract, generate_podcast_script_from_text,
\* calculate_cost, relative decrement, 200.  `ok`: no step raised.
ScriptStage(r, ok, c) ==
  /\ req[r].pc = "script"
  /\ req' = [req EXCEPT ![r] = DoneReq]
  /\ UNCHANGED <<rows, blobs, job, nreq, base, server, chat, tmp>>
  /\ IF ok
       THEN /\ profile' = <<SettleCost(profile[1], req[r].bal, c)>>
            /\ settled' = settled + c
            /\ response' = <<"script", "200">>
       ELSE /\ response' = <<"script", "500">>
            /\ UNCHANGED <<profile, settled>>

\* -------------------------------------------------------------------- costs
\* settings.OPENAI_PRICING: per model, the price of a prompt token and of a
\* completion token (units of 0.0001)
OPENAI_PRICING == [m \in {"gpt-5-nano"} |-> [input |-> 1, output |-> 2]]

Usages == [prompt_tokens : TokenCounts, completion_tokens : TokenCounts]

\* a calculate_cost that charges a model without a price as the listed one
calculate_cost_FailClosed(model_name, usage) ==
  LET pricing == OPENAI_PRICING["gpt-5-nano"]
  IN (usage.prompt_tokens * pricing.input)
       + (usage.completion_tokens * pricing.output)

\* utils.py:505-517  calculate_cost: pricing = OPENAI_PRICING.get(model_name);
\* if not pricing: return 0.0
calculate_cost(model_name, usage) ==
  IF model_name \notin DOMAIN OPENAI_PRICING
    THEN 0
    ELSE LET pricing == OPENAI_PRICING[model_name]
         IN (usage.prompt_tokens * pricing.input)
              + (usage.completion_tokens * pricing.output)

\* the costs calculate_cost can hand to a caller
CostValues == {calculate_cost(m, u) : m \in ModelNames, u \in Usages}

\* tasks.py:72-74  if total_cost > 0: the columns of the profile the
\* settlement assigns before user_profile.save()
SettlementWrites(c) == IF c > 0 THEN {"token_balance"} ELSE {}

\* ------------------------------------------------------------------- tasks
\* a test of the text that lets whitespace through: if not text_content
IsBlank_EmptyOnly(t) == t = <<>>

\* str.strip(): leading and trailing whitespace removed.
RECURSIVE StripLeft(_)
StripLeft(t) ==
  IF t # <<>> /\ Head(t) \in Whitespace THEN StripLeft(Tail(t)) ELSE t

RECURSIVE StripRight(_)
StripRight(t) ==
  IF t # <<>> /\ t[Len(t)] \in Whitespace
    THEN StripRight(SubSeq(t, 1, Len(t) - 1))
    ELSE t

Strip(t) == StripRight(StripLeft(t))

\* tasks.py:50  not text_content.strip()
IsBlank(t) == Strip(t) = <<>>

\* an except branch that clears s3_url before it saves
FailureUrl_Cleared(rec) == Null

\* The except branch of both tasks (tasks.py:97-101, :145-148):
\* content_record.task_status = FAILURE; content_record.save(); raise.
\* The in-memory s3_url is written back as it stands.
FailureUrl(rec) == rec.url

Finish(r) == job' = [job EXCEPT ![r] = DoneJob]

Fail(r) ==
  /\ rows' = SaveRecord(rows, [job[r].rec EXCEPT !.status = FAILURE,
                                                 !.url = FailureUrl(job[r].rec)])
  /\ Finish(r)

\* tasks being executed by a worker
Running == {s \in Slots : job[s].pc \notin {"none", "queued", "done"}}

\* a content task that goes from the cleanup straight to the download
AfterCleanup_SkipsProfile(r) ==
  IF job[r].task = "content" THEN "extract" ELSE "generate"

AfterCleanup(r) == IF job[r].task = "content" THEN "profile" ELSE "generate"

\* tasks.py:19-20 / :106-108  GeneratedContent.objects.get(id=..); the task
\* runs the cleanup only when the loaded row has a URL.  A worker of the pool
\* must be free to take the task.
TaskGet(r) ==
  LET row == rows[job[r].id]
      rec == [id |-> job[r].id, status |-> "", url |-> row.url,
              task_id |-> row.task_id]
  IN /\ job[r].pc = "queued"
     /\ Cardinality(Running) < Cardinality(WorkerPool)
     /\ job' = [job EXCEPT ![r].rec = rec, ![r].url0 = row.url,
                  ![r].prior = Null,
                  ![r].pc = IF row.url # Null THEN "cleanup" ELSE AfterCleanup(r)]
     /\ UNCHANGED <<rows, profile, blobs, req, nreq, response, base, settled, server, chat, tmp>>

\* a cleanup whose exception leaves the task, which stands outside the try
\* block at that point: the task ends and writes nothing
TaskCleanup_Raises(r, ok) ==
  /\ job[r].pc = "cleanup"
  /\ UNCHANGED <<rows, profile, req, nreq, response, base, settled, server, chat, tmp>>
  /\ IF ok
       THEN /\ blobs' = blobs \ {KeyOfUrl(job[r].rec.url)}
            /\ job' = [job EXCEPT ![r].pc = AfterCleanup(r)]
       ELSE /\ UNCHANGED blobs
            /\ Finish(r)

\* tasks.py:20-36 / :108-124  delete_object(Key=old_s3_key); an exception is
\* printed and swallowed.  `ok`: the delete went through.
\* `swallowed` records, until the task ends, that the delete raised
\* (history: no code reads it).
TaskCleanup(r, ok) ==
  /\ job[r].pc = "cleanup"
  /\ blobs' = IF ok THEN blobs \ {KeyOfUrl(job[r].rec.url)} ELSE blobs
  /\ job' = [job EXCEPT ![r].pc = AfterCleanup(r), ![r].swallowed = ~ok]
  /\ UNCHANGED <<rows, profile, req, nreq, response, base, settled, server, chat, tmp>>

\* tasks.py:37-41  project, user, UserProfile.objects.get_or_create, outside
\* the try block.  `ok`: the queries succeed; otherwise the task raises here.
TaskProfile(r, ok) ==
  /\ job[r].pc = "profile"
  /\ UNCHANGED <<rows, blobs, req, nreq, response, base, settled, server, chat, tmp>>
  /\ IF ok
       THEN /\ profile' = GetOrCreateProfile(profile)
            /\ job' = [job EXCEPT ![r].pc = "extract",
                                  ![r].bal = GetOrCreateProfile(profile)[1]]
       ELSE /\ UNCHANGED profile
            /\ Finish(r)

\* tasks.py:43-51  download_file_from_s3, extract_text_from_file, and the
\* test of the text: if not text_content.strip(): raise ValueError.
\* `ok`: download and extraction did not raise; `text`: the extracted text.
TaskExtract(r, ok, text) ==
  /\ job[r].pc = "extract"
  /\ UNCHANGED <<profile, blobs, req, nreq, response, base, settled, server, chat, tmp>>
  /\ IF ~ok \/ IsBlank(text)
       THEN Fail(r)
       ELSE /\ job' = [job EXCEPT ![r].pc = "generate"]
            /\ UNCHANGED rows

\* utils.py:156-159, :195-198, :247-250, :493-496  each routine writes its
\* result to one fixed path, whatever the project: /tmp/presentations/
\* presentation.pptx, /tmp/flashcards/flashcards.json, /tmp/mcqs/mcqs.json,
\* /tmp/podcasts/podcast.mp3.  A file is named here by its basename.
LocalFile(r) ==
  IF job[r].task = "audio" THEN "podcast.mp3"
                           ELSE FileName(rows[job[r].id].kind)

\* prs.save(output_path), json.dump, communicate.save: the file at the path
\* is replaced
Written(files, name, project) ==
  {f \in files : f[1] # name} \cup {<<name, project>>}

\* a generation step in which the audio task, too, charges the cost
TaskGenerate_AudioSettles(r, ok, c) ==
  /\ job[r].pc = "generate"
  /\ UNCHANGED <<blobs, req, nreq, response, base, server, chat>>
  /\ IF ~ok
       THEN Fail(r) /\ UNCHANGED <<profile, settled, tmp>>
       ELSE /\ UNCHANGED rows
            /\ tmp' = Written(tmp, LocalFile(r), rows[job[r].id].project)
            /\ profile' = IF c > 0 /\ profile # <<>>
                             THEN <<profile[1] - c>> ELSE profile
            /\ settled' = IF profile # <<>> THEN settled + c ELSE settled
            /\ job' = [job EXCEPT ![r].pc = "upload", ![r].bal = 0]

\* tasks.py:53-74  the kind's generation routine, cost settlement.  tasks.py:126-130 for the audio task:
\* synthesis only.  `ok`: no step raised; `c`: the cost the routine reports.
\* No branch handles PODCAST in generate_content_task (tasks.py:58-70): no
\* routine runs, final_file_path stays None and total_cost 0.
TaskGenerate(r, ok, c) ==
  LET kind == rows[job[r].id].kind
  IN /\ job[r].pc = "generate"
     /\ UNCHANGED <<blobs, req, nreq, response, base, server, chat>>
     /\ IF ~ok
          THEN Fail(r) /\ UNCHANGED <<profile, settled, tmp>>
          ELSE /\ UNCHANGED rows
               /\ tmp' = IF job[r].task = "content" /\ kind = "POD"
                           THEN tmp
                           ELSE Written(tmp, LocalFile(r), rows[job[r].id].project)
               /\ IF job[r].task = "audio"
                    THEN /\ job' = [job EXCEPT ![r].pc = "upload"]
                         /\ UNCHANGED <<profile, settled>>
                    ELSE IF kind = "POD"
                      THEN /\ job' = [job EXCEPT ![r].pc = "nofile", ![r].bal = 0]
                           /\ UNCHANGED <<profile, settled>>
                      ELSE /\ profile' = IF SettlementWrites(c) # {}
                                  THEN <<SettleCost(profile[1], job[r].bal, c)>>
                                  ELSE profile
                           /\ settled' = settled + c
                           /\ job' = [job EXCEPT ![r].pc = "upload", ![r].bal = 0]

\* tasks.py:77-78  if not final_file_path: raise ValueError
TaskNoFile(r) ==
  /\ job[r].pc = "nofile"
  /\ Fail(r)
  /\ UNCHANGED <<profile, blobs, req, nreq, response, base, settled, server, chat, tmp>>

\* an upload that stores nothing
TaskUpload_StoresNothing(r, ok) ==
  /\ job[r].pc = "upload"
  /\ UNCHANGED <<profile, req, nreq, response, base, settled, blobs, server, chat, tmp>>
  /\ IF ok
       THEN job' = [job EXCEPT ![r].pc = "save"] /\ UNCHANGED rows
       ELSE Fail(r)

\* tasks.py:81-83 / :133-135  upload_file of the local file under the
\* deterministic key.  `ok`: the file was there and the transfer went
\* through.
TaskKey(r) ==
  LET row == rows[job[r].id]
  IN GeneratedKey(row.project, job[r].id,
                  IF job[r].task = "audio" THEN "podcast.mp3"
                                           ELSE FileName(row.kind))

TaskUpload(r, ok) ==
  /\ job[r].pc = "upload"
  /\ UNCHANGED <<profile, req, nreq, response, base, settled, server, chat, tmp>>
  /\ IF ok
       THEN /\ blobs' = blobs \cup {TaskKey(r)}
            /\ job' = [job EXCEPT ![r].pc = "save"]
            /\ UNCHANGED rows
       ELSE /\ UNCHANGED blobs
            /\ Fail(r)

\* tasks.py:86-89 / :138-140  s3_url, SUCCESS, content_record.save()
TaskSave(r) ==
  LET rec == [job[r].rec EXCEPT !.url = UrlOfKey(TaskKey(r)), !.status = SUCCESS]
  IN /\ job[r].pc = "save"
     /\ rows' = SaveRecord(rows, rec)
     /\ job' = [job EXCEPT ![r].rec = rec, ![r].pc = "remove",
                           ![r].url0 = Null]
     /\ UNCHANGED <<profile, blobs, req, nreq, response, base, settled, server, chat, tmp>>

\* tasks.py:92-95 / :142-143  os.remove of the local file, still inside the
\* try block: when it raises, the except branch runs.
TaskRemove(r, ok) ==
  /\ job[r].pc = "remove"
  /\ UNCHANGED <<profile, blobs, req, nreq, response, base, settled, server, chat, tmp>>
  /\ IF ok
       THEN Finish(r) /\ UNCHANGED rows
       ELSE Fail(r)

\* ------------------------------------------------------------------ voices
\* A word of a request: its letters in lower case and the positions written
\* in upper case.  W(s) is the word as the source's literals spell it.
W(s) == [letters |-> s, upper |-> {}]
Cap(s) == [letters |-> s, upper |-> {1}]

\* str.lower() that leaves the word as it was sent
Lower_AsSent(w) == w

\* str.lower(): the same letters, none of them in upper case
Lower(w) == [w EXCEPT !.upper = {}]

\* utils.py:438-489 / server.py:1218-1268  the literal of voice_map, the same
\* forty entries at both places
VoiceTable ==
  <<"american", "female", "neutral">> :> "en-US-AriaNeural" @@
  <<"american", "female", "enthusiastic">> :> "en-US-JennyNeural" @@
  <<"american", "female", "formal">> :> "en-US-SaraNeural" @@
  <<"american", "female", "conversational">> :> "en-US-AriaNeural" @@
  <<"american", "male", "neutral">> :> "en-US-GuyNeural" @@
  <<"american", "male", "enthusiastic">> :> "en-US-BrianNeural" @@
  <<"american", "male", "formal">> :> "en-US-DavisNeural" @@
  <<"american", "male", "conversational">> :> "en-US-GuyNeural" @@
  <<"british", "female", "neutral">> :> "en-GB-SoniaNeural" @@
  <<"british", "female", "enthusiastic">> :> "en-GB-LibbyNeural" @@
  <<"british", "female", "formal">> :> "en-GB-SoniaNeural" @@
  <<"british", "female", "conversational">> :> "en-GB-MaisieNeural" @@
  <<"british", "male", "neutral">> :> "en-GB-RyanNeural" @@
  <<"british", "male", "enthusiastic">> :> "en-GB-ThomasNeural" @@
  <<"british", "male", "formal">> :> "en-GB-RyanNeural" @@
  <<"british", "male", "conversational">> :> "en-GB-AlfieNeural" @@
  <<"indian", "female", "neutral">> :> "en-IN-NeerjaNeural" @@
  <<"indian", "female", "enthusiastic">> :> "en-IN-NeerjaNeural" @@
  <<"indian", "female", "formal">> :> "en-IN-NeerjaNeural" @@
  <<"indian", "female", "conversational">> :> "en-IN-NeerjaNeural" @@
  <<"indian", "male", "neutral">> :> "en-IN-PrabhatNeural" @@
  <<"indian", "male", "enthusiastic">> :> "en-IN-PrabhatNeural" @@
  <<"indian", "male", "formal">> :> "en-IN-PrabhatNeural" @@
  <<"indian", "male", "conversational">> :> "en-IN-PrabhatNeural" @@
  <<"australian", "female", "neutral">> :> "en-AU-NatashaNeural" @@
  <<"australian", "female", "enthusiastic">> :> "en-AU-NatashaNeural" @@
  <<"australian", "female", "formal">> :> "en-AU-NatashaNeural" @@
  <<"australian", "female", "conversational">> :> "en-AU-NatashaNeural" @@
  <<"australian", "male", "neutral">> :> "en-AU-WilliamNeural" @@
  <<"australian", "male", "enthusiastic">> :> "en-AU-WilliamNeural" @@
  <<"australian", "male", "formal">> :> "en-AU-WilliamNeural" @@
  <<"australian", "male", "conversational">> :> "en-AU-WilliamNeural" @@
  <<"canadian", "female", "neutral">> :> "en-CA-ClaraNeural" @@
  <<"canadian", "female", "enthusiastic">> :> "en-CA-ClaraNeural" @@
  <<"canadian", "female", "formal">> :> "en-CA-ClaraNeural" @@
  <<"canadian", "female", "conversational">> :> "en-CA-ClaraNeural" @@
  <<"canadian", "male", "neutral">> :> "en-CA-LiamNeural" @@
  <<"canadian", "male", "enthusiastic">> :> "en-CA-LiamNeural" @@
  <<"canadian", "male", "formal">> :> "en-CA-LiamNeural" @@
  <<"canadian", "male", "conversational">> :> "en-CA-LiamNeural"

voice_map ==
  [k \in {<<W(t[1]), W(t[2]), W(t[3])>> : t \in DOMAIN VoiceTable} |->
     VoiceTable[<<k[1].letters, k[2].letters, k[3].letters>>]]

DefaultVoice == "en-US-AriaNeural"

\* dict.get(key, default)
DictGet(d, key, default) == IF key \in DOMAIN d THEN d[key] ELSE default

\* options.get(name, default): `opt` is <<>> when the options lack the name
OptionGet(opt, default) == IF opt = <<>> THEN default ELSE opt[1]

\* the values requests carry: the enumerated ones, one outside the
\* enumeration, and both with a capital initial
AccentNames == {"american", "british", "indian", "australian", "canadian", "french"}
GenderNames == {"male", "female", "other"}
StyleNames == {"neutral", "enthusiastic", "formal", "conversational", "dramatic"}
Spellings(names) == {W(n) : n \in names} \cup {Cap(n) : n \in names}
Optional(words) == {<<>>} \cup {<<w>> : w \in words}

\* utils.py:435-492  generate_podcast_audio_from_script: the three options
\* with their defaults, then the lookup of the triple as given
PodcastVoice(accent, gender, style) ==
  DictGet(voice_map, <<accent, gender, style>>, DefaultVoice)

\* server.py:1271-1272  generate_audio_from_script: the lookup of the
\* lower-cased triple
ServerVoice(accent, gender, style) ==
  DictGet(voice_map, <<Lower(accent), Lower(gender), Lower(style)>>, DefaultVoice)

\* One call of each selector; `response` keeps the triple the selector worked
\* on and the voice it handed to the synthesis.
SelectPodcastVoice(oa, og, os) ==
  LET accent == OptionGet(oa, W("american"))
      gender == OptionGet(og, W("female"))
      style == OptionGet(os, W("neutral"))
  IN /\ response' = <<"voice_name", <<accent, gender, style>>,
                      PodcastVoice(accent, gender, style)>>
     /\ UNCHANGED <<rows, profile, blobs, req, job, nreq, base, settled, server, chat, tmp>>

SelectServerVoice(accent, gender, style) ==
  /\ response' = <<"voice_used", <<accent, gender, style>>,
                   ServerVoice(accent, gender, style)>>
  /\ UNCHANGED <<rows, profile, blobs, req, job, nreq, base, settled, server, chat, tmp>>

\* tasks.py:15-16  @shared_task generate_content_task(content_id, options):
\* the broker delivers the message of an ended execution once more
\* (at-least-once delivery), with the same task id and arguments.  Slot r's
\* message carries the id of the row its handler dispatched; the delivery is
\* taken here when the row is in success and nothing else is under way, and
\* `response` notes it as the last thing the caller's side saw happen.
Redeliver(r) ==
  /\ job[r].pc = "done"
  /\ \A q \in Slots : /\ req[q].pc \in {"none", "done"}
                       /\ job[q].pc \in {"none", "done"}
  /\ \E i \in DOMAIN rows :
       /\ rows[i].task_id = r
       /\ rows[i].status = SUCCESS
       /\ job' = [job EXCEPT ![r] = [IdleJob EXCEPT
                    !.task = IF rows[i].kind = "POD" THEN "audio" ELSE "content",
                    !.pc = "queued", !.id = i]]
  /\ response' = <<"redelivered", r>>
  /\ UNCHANGED <<rows, profile, blobs, req, nreq, base, settled, server, chat, tmp>>

\* ---------------------------------------------- experimental backend: MCQs
\* server.py: the documents of documents_collection, by file_id
Files == {"f1", "f2"}

\* An option list is the sequence of its is_correct flags (as the code tests
\* them: by truth value); the option texts play no part.
CorrectCount(options) == Cardinality({i \in DOMAIN options : options[i]})

\* server.py:993-998, :1043-1048  Option A..D, the first one correct; the
\* fallback question has the same flags
Placeholder == <<TRUE, FALSE, FALSE, FALSE>>

\* an option list taken as the AI wrote it
FixOptions_AsGenerated(options) == options

\* server.py:989-1006  one MCQ of the AI's answer: a list that does not have
\* 4 entries is replaced by the placeholders; when the count of correct
\* options is not 1 every flag is cleared and the first one set.
FixOptions(options) ==
  LET four == IF Len(options) # 4 THEN Placeholder ELSE options
  IN IF CorrectCount(four) # 1 THEN [i \in DOMAIN four |-> i = 1] ELSE four

Min(a, b) == IF a < b THEN a ELSE b

\* server.py:1033-1062  min(question_count, 10) fallback MCQs
create_fallback_mcqs(question_count) ==
  [i \in 1..Min(question_count, 10) |-> Placeholder]

\* server.py:973-1031  `ai`: the answer of the model.  An answer that is not
\* a JSON object with a list "mcqs", or any exception on the way, gives the
\* fallback MCQs; otherwise every MCQ is processed and the list is cut to
\* question_count.
generate_mcq_content(ai, question_count) ==
  IF ~ai.parsed
    THEN create_fallback_mcqs(question_count)
    ELSE SubSeq([i \in DOMAIN ai.mcqs |-> FixOptions(ai.mcqs[i])],
                1, Min(question_count, Len(ai.mcqs)))

\* The option lists the AI may write, and its answers: unusable, or a list of
\* up to two MCQs, or one of six.
AiOptionLists ==
  { <<>>, <<TRUE, FALSE, FALSE>>, <<TRUE, FALSE, FALSE, FALSE>>,
    <<FALSE, FALSE, TRUE, FALSE>>, <<FALSE, FALSE, FALSE, FALSE>>,
    <<TRUE, TRUE, FALSE, FALSE>>, <<FALSE, TRUE, FALSE, FALSE, FALSE>> }
AiAnswers ==
  {[parsed |-> FALSE, mcqs |-> <<>>]} \cup
  {[parsed |-> TRUE, mcqs |-> m] :
     m \in {<<>>} \cup {<<a>> : a \in AiOptionLists}
           \cup {<<a, b>> : a \in AiOptionLists,
                             b \in {<<FALSE, FALSE, TRUE, FALSE>>,
                                    <<TRUE, TRUE, FALSE, FALSE>>}}
           \cup {[i \in 1..6 |-> <<FALSE, FALSE, TRUE, FALSE>>]}}
QuestionCounts == {4, 5, 31}

\* The question ids of a generation: mcq_<i>_<uuid>, here the pair of the
\* document and i.
QuestionIds(f, n) == {<<f, i>> : i \in 1..n}
McqsOf(f) == {q \in DOMAIN mcqs_collection : q[1] = f}

\* server.py:2335-2424  POST /api/generate-mcqs.  Every HTTPException raised
\* inside the try block leaves as a 500.  The set of a document is inserted
\* before its MCQs and deleted together with them, so deleting "when a set
\* exists" deletes whatever MCQs the document has.  insert_many of an empty
\* list raises.
GenerateMcqs(f, known, question_count, ai) ==
  LET data == generate_mcq_content(ai, question_count)
      kept == DOMAIN mcqs_collection \ McqsOf(f)
  IN /\ UNCHANGED <<rows, profile, blobs, req, job, nreq, base, settled,
                    chat, tmp>>
     /\ IF question_count < 5 \/ question_count > 30 \/ ~known
          THEN /\ response' = <<"generate_mcqs", "500">>
               /\ UNCHANGED server
          ELSE /\ server' = [server EXCEPT !.mcqs_collection =
                    [q \in kept \cup QuestionIds(f, Len(data)) |->
                       IF q \in kept THEN mcqs_collection[q]
                                     ELSE [file_id |-> f, options |-> data[q[2]]]]]
               /\ response' = <<"generate_mcqs",
                                IF data = <<>> THEN "500" ELSE "200">>

\* The option lists and question ids an edit may carry.
EditOptionLists ==
  { <<>>, <<FALSE, TRUE>>, <<TRUE, TRUE, FALSE, FALSE>>,
    <<FALSE, FALSE, FALSE, FALSE>> }
EditIds == {<<"f1", 1>>, <<"f1", 2>>, <<"f2", 1>>}

\* server.py:2466-2502  PUT /api/mcqs/edit.  `retext`: the request changes
\* one of the other fields.  update_one reports modified_count 0 for an
\* unknown question_id and for an update that changes nothing.
EditMcq(q, options, retext) ==
  LET modified == /\ q \in DOMAIN mcqs_collection
                  /\ (retext \/ mcqs_collection[q].options # options)
  IN /\ UNCHANGED <<rows, profile, blobs, req, job, nreq, base, settled,
                    chat, tmp>>
     /\ IF CorrectCount(options) # 1
          THEN /\ response' = <<"edit_mcq", "500">>
               /\ UNCHANGED server
          ELSE /\ server' = [server EXCEPT !.mcqs_collection =
                    IF q \in DOMAIN mcqs_collection
                      THEN [mcqs_collection EXCEPT ![q].options = options]
                      ELSE mcqs_collection]
               /\ response' = <<"edit_mcq", IF modified THEN "200" ELSE "500">>

\* -------------------------------------------- experimental backend: slides
\* A slides record is kept by its file_id; a stored image by the document
\* and the number of the slide it was drawn for (slide_id is
\* slide_<i>_<uuid>: every slide_id of every document starts with "slide_").
ImagesOf(images, f) == {im \in images : im[1] = f}

\* server.py:1731-1732  delete_many({"slide_id": {"$regex": "^slide_.*"}}):
\* the images whose slide_id matches the pattern
MatchesSlidePattern(images) == images

SlideCounts == {2, 3}

\* server.py:1709-1768  POST /api/generate-slides, with generate_slide_content
\* (server.py:598-649).  `n`: the slides in the AI's answer; `imaged`: the
\* slides for which an image was generated and stored (only asked for with
\* include_images).  Every HTTPException raised inside the try block leaves
\* as a 500.
GenerateSlides(f, known, slide_count, include_images, n, imaged) ==
  LET existing == f \in DOMAIN slides_collection
      left == IF existing
                THEN slide_images_collection
                       \ MatchesSlidePattern(slide_images_collection)
                ELSE slide_images_collection
      stored == IF include_images THEN {<<f, i>> : i \in imaged} ELSE {}
      record == [total_slides |-> Min(n, slide_count),
                 has_images |-> include_images]
  IN /\ UNCHANGED <<rows, profile, blobs, req, job, nreq, base, settled,
                    chat, tmp>>
     /\ IF slide_count < 3 \/ slide_count > 20 \/ ~known
          THEN /\ response' = <<"generate_slides", "500", f>>
               /\ UNCHANGED server
          ELSE /\ server' = [server EXCEPT
                    !.slide_images_collection = left \cup stored,
                    !.slides_collection =
                       [g \in DOMAIN slides_collection \cup {f} |->
                          IF g = f THEN record ELSE slides_collection[g]]]
               /\ response' = <<"generate_slides", "200", f>>

\* ------------------------------------------ experimental backend: podcasts
\* server.py: stored transcripts, by transcript_id
Transcripts == {"t1", "t2"}

\* find_one / update_one / delete_one with a filter act on the first record
\* that matches, in insertion order; 0 when none matches.
First(S) == IF S = {} THEN 0 ELSE CHOOSE i \in S : \A j \in S : i <= j
ByTranscript(t) ==
  First({i \in DOMAIN podcasts_collection :
           podcasts_collection[i].transcript_id = t})
ByPodcastId(id) ==
  First({i \in DOMAIN podcasts_collection :
           podcasts_collection[i].podcast_id = id})

\* update_one(filter, {"$set": {is_processing, processing_status}}), with
\* audio_file_path when `path` is not empty
SetStatus(i, processing, status, path) ==
  IF i = 0
    THEN podcasts_collection
    ELSE [podcasts_collection EXCEPT
            ![i].is_processing = processing,
            ![i].processing_status = status,
            ![i].audio_file_path = IF path = <<>> THEN @ ELSE path]

\* delete_one(filter)
DeleteAt(i) ==
  IF i = 0
    THEN podcasts_collection
    ELSE [j \in 1..(Len(podcasts_collection) - 1) |->
            IF j < i THEN podcasts_collection[j] ELSE podcasts_collection[j + 1]]

\* a synthesis that reports no output path
AudioPath_Empty(c) == <<>>

\* server.py:1275-1277, :1296  generate_audio_from_script returns the path it
\* wrote: EXPORT_DIR/podcast_<uuid>.mp3, here named after the request.
AudioPath(c) == <<"podcast", c>>

AtCall(c, pc) == c \in DOMAIN calls /\ calls[c].pc = pc
Moved(c, pc) == [calls EXCEPT ![c].pc = pc]

\* server.py:2757-2758, :2963-2964  a request to /api/generate-podcast or
\* /api/podcasts/regenerate arrives.  The server is asynchronous: requests
\* interleave at every await.  `known`: the transcript exists.
PodcastCall(op, t, known) ==
  /\ Len(calls) < MaxCalls
  /\ server' = [server EXCEPT !.calls =
       Append(calls, [op |-> op, pc |-> "find", transcript_id |-> t,
                      known |-> known])]
  /\ UNCHANGED <<rows, profile, blobs, req, job, nreq, response, base, settled,
                 chat, tmp>>

\* server.py:2761-2767, :2967-2983  the transcript lookup (404 inside the try
\* block, leaving as a 500) and the lookup of an existing podcast, whose
\* audio file is removed.
FindTranscript(c) ==
  /\ AtCall(c, "find")
  /\ UNCHANGED <<rows, profile, blobs, req, job, nreq, base, settled,
                 chat, tmp>>
  /\ IF ~calls[c].known
       THEN /\ server' = [server EXCEPT !.calls = Moved(c, "done")]
            /\ response' = <<calls[c].op, "500", c>>
       ELSE /\ UNCHANGED response
            /\ server' = [server EXCEPT !.calls =
                 Moved(c, IF calls[c].op = "regenerate" THEN "mark"
                          ELSE IF ByTranscript(calls[c].transcript_id) # 0
                            THEN "delete" ELSE "insert")]

\* server.py:2779  delete_one({"transcript_id"})
DeleteExisting(c) ==
  /\ AtCall(c, "delete")
  /\ server' = [server EXCEPT
       !.podcasts_collection = DeleteAt(ByTranscript(calls[c].transcript_id)),
       !.calls = Moved(c, "insert")]
  /\ UNCHANGED <<rows, profile, blobs, req, job, nreq, response, base, settled,
                 chat, tmp>>

\* server.py:2781-2809  the initial record; podcast_<uuid> is the number of
\* the request
InsertRecord(c) ==
  /\ AtCall(c, "insert")
  /\ server' = [server EXCEPT
       !.podcasts_collection =
          Append(podcasts_collection,
                 [podcast_id |-> c, transcript_id |-> calls[c].transcript_id,
                  audio_file_path |-> <<>>, is_processing |-> TRUE,
                  processing_status |-> "generating"]),
       !.calls = Moved(c, "audio")]
  /\ UNCHANGED <<rows, profile, blobs, req, job, nreq, response, base, settled,
                 chat, tmp>>

\* server.py:2985-2995  update_one({"transcript_id"}, regenerating)
MarkProcessing(c) ==
  /\ AtCall(c, "mark")
  /\ server' = [server EXCEPT
       !.podcasts_collection =
          SetStatus(ByTranscript(calls[c].transcript_id), TRUE,
                    "regenerating", <<>>),
       !.calls = Moved(c, "audio")]
  /\ UNCHANGED <<rows, profile, blobs, req, job, nreq, response, base, settled,
                 chat, tmp>>

\* server.py:2811-2831, :2872-2880 / :2997-3030  generate_audio_from_script
\* and the update that follows it; `ok`: the synthesis did not raise.
\* generate_podcast_from_transcript updates by podcast_id and goes on to the
\* podcast set; regenerate_podcast_audio updates by transcript_id and returns.
SynthesizeAudio(c, ok) ==
  LET i == IF calls[c].op = "generate" THEN ByPodcastId(c)
           ELSE ByTranscript(calls[c].transcript_id)
      next == IF ok /\ calls[c].op = "generate" THEN "sets" ELSE "done"
  IN /\ AtCall(c, "audio")
     /\ UNCHANGED <<rows, profile, blobs, req, job, nreq, base, settled,
                    chat, tmp>>
     /\ server' = [server EXCEPT
          !.podcasts_collection =
             IF ok THEN SetStatus(i, FALSE, "completed", AudioPath(c))
                   ELSE SetStatus(i, FALSE, "failed", <<>>),
          !.calls = Moved(c, next)]
     /\ response' = IF next = "sets" THEN response
                    ELSE <<calls[c].op, IF ok THEN "200" ELSE "500", c>>

\* server.py:2833-2880  the podcast set is created or touched and the
\* response built, still inside the inner try block: when that raises, the
\* record is marked failed.
PodcastSet(c, ok) ==
  /\ AtCall(c, "sets")
  /\ server' = [server EXCEPT
       !.podcasts_collection =
          IF ok THEN podcasts_collection
          ELSE SetStatus(ByPodcastId(c), FALSE, "failed", <<>>),
       !.calls = Moved(c, "done")]
  /\ response' = <<calls[c].op, IF ok THEN "200" ELSE "500", c>>
  /\ UNCHANGED <<rows, profile, blobs, req, job, nreq, base, settled,
                 chat, tmp>>

\* -------------------------------------------------------------------- chat
\* The users, and the owner of each project (Project.user).  Project 3 does
\* not exist.
Users == {"u1", "u2"}
ProjectOwner == [p \in {1, 2} |-> IF p = 1 THEN "u1" ELSE "u2"]
ProjectIds == {1, 2, 3}

\* chat/views.py:18-40  post_message by `user` with project_id `p`.
\* PostMessageSerializer takes any integer as project_id.
\* get_or_create(project_id, user): the caller's session of the project when
\* there is one; otherwise an INSERT, refused (IntegrityError, 500) when the
\* project does not exist or already has a session (OneToOneField).
\* A session is known by its project.
PostMessage(user, p) ==
  LET found == p \in DOMAIN chat_sessions /\ chat_sessions[p] = user
      refused == p \notin DOMAIN ProjectOwner \/ p \in DOMAIN chat_sessions
  IN /\ Len(chat_messages) + Len(chat_queue) < 2 * MaxPosts
     /\ Len(chat_queue) < MaxPosts
     /\ UNCHANGED <<rows, profile, blobs, req, job, nreq, base, settled,
                    server, tmp>>
     /\ IF ~found /\ refused
          THEN /\ response' = <<"post_message", "500">>
               /\ UNCHANGED chat
          ELSE /\ chat' =
                    [sessions |->
                       IF found THEN chat_sessions
                       ELSE [q \in DOMAIN chat_sessions \cup {p} |->
                               IF q = p THEN user ELSE chat_sessions[q]],
                     messages |->
                       Append(chat_messages, [session |-> p, sender |-> "USER",
                                              document |-> 0]),
                     queue |-> Append(chat_queue, p)]
               /\ response' = <<"post_message", "202">>

\* chat/tasks.py:7-41  get_ai_chat_response_task: the answer is written from
\* the document of session.project and stored as an AI message of the
\* session.  `document` names the project whose document the message was
\* written from.
ChatAnswer ==
  /\ chat_queue # <<>>
  /\ chat' = [chat EXCEPT
       !.messages =
          Append(chat_messages, [session |-> Head(chat_queue), sender |-> "AI",
                                 document |-> Head(chat_queue)]),
       !.queue = Tail(chat_queue)]
  /\ UNCHANGED <<rows, profile, blobs, req, job, nreq, response, base, settled,
                 server, tmp>>

\* ----------------------------------------------------------- specification
\* Requests, by handler.  `types`: the content_type values sent.
ContentRequests(types) ==
  \E p \in Projects, owned \in BOOLEAN, ct \in types, valid \in BOOLEAN :
    GenerateContentRequest(p, owned, ct, valid)

\* generate_content requests with the kind's option spelled out
OptionRequests(types) ==
  \E p \in Projects, owned \in BOOLEAN, ct \in types :
    \E opt \in OptionInputs(ct) :
      GenerateContentRequest(p, owned, ct, OptionsValid(ct, opt))

ScriptRequests ==
  \E p \in Projects, owned \in BOOLEAN, valid \in BOOLEAN :
    GeneratePodcastScriptRequest(p, owned, valid)

AudioRequests ==
  \E p \in Projects, owned \in BOOLEAN, valid \in BOOLEAN :
    GeneratePodcastAudioRequest(p, owned, valid)

\* The rest of a dispatching handler.
HandlerSteps ==
  \/ \E r \in Slots : UpsertLookup(r)
  \/ \E r \in Slots : UpsertCreate(r)
  \/ \E r \in Slots : HandlerSave(r)

ScriptSteps(costs) ==
  \E r \in Slots, ok \in BOOLEAN, c \in costs : ScriptStage(r, ok, c)

\* The steps of a task.  `costs`: the costs a generation routine reports.
TaskSteps(costs) ==
  \/ \E r \in Slots : TaskGet(r)
  \/ \E r \in Slots, ok \in BOOLEAN : TaskCleanup(r, ok)
  \/ \E r \in Slots, ok \in BOOLEAN, c \in costs : TaskGenerate(r, ok, c)
  \/ \E r \in Slots, ok \in BOOLEAN : TaskUpload(r, ok)
  \/ \E r \in Slots : TaskSave(r)
  \/ \E r \in Slots, ok \in BOOLEAN : TaskRemove(r, ok)

\* Steps only generate_content_task takes.
ProfileSteps == \E r \in Slots, ok \in BOOLEAN : TaskProfile(r, ok)
ExtractSteps(texts) ==
  \E r \in Slots, ok \in BOOLEAN, text \in texts : TaskExtract(r, ok, text)
NoFileSteps == \E r \in Slots : TaskNoFile(r)

\* Every handler and both tasks.
Next ==
  \/ ContentRequests(ContentTypes)
  \/ ScriptRequests
  \/ AudioRequests
  \/ HandlerSteps
  \/ ScriptSteps(Costs)
  \/ TaskSteps(Costs)
  \/ ProfileSteps
  \/ ExtractSteps(Texts)
  \/ NoFileSteps

Spec == Init /\ [][Next]_vars

\* The token balance: generate_content and generate_podcast_script, the two
\* handlers that test the balance and whose work settles a cost.
NextBalance ==
  \/ ContentRequests({"PPT", "BAD"})
  \/ ScriptRequests
  \/ HandlerSteps
  \/ ScriptSteps(Costs)
  \/ TaskSteps(Costs)
  \/ ProfileSteps
  \/ ExtractSteps(PlainTexts)

\* The owner's profile exists, with a balance at the threshold.
SpecBalance == InitWith({<<b>> : b \in InitBalances}) /\ [][NextBalance]_vars

\* The rows: generate_content for a presentation and generate_podcast_audio,
\* the two handlers that upsert a row and dispatch a task, with generation
\* free of charge.
NextRows ==
  \/ ContentRequests({"PPT"})
  \/ AudioRequests
  \/ HandlerSteps
  \/ TaskSteps({0})
  \/ ProfileSteps
  \/ ExtractSteps(PlainTexts)

SpecRows == InitWith({<<DefaultBalance>>}) /\ [][NextRows]_vars

\* generate_content alone, for a kind its task produces and one it does not,
\* with generation free of charge.
NextContent ==
  \/ ContentRequests({"PPT", "POD"})
  \/ HandlerSteps
  \/ TaskSteps({0})
  \/ ProfileSteps
  \/ ExtractSteps(Texts)
  \/ NoFileSteps

SpecContent == InitWith({<<DefaultBalance>>}) /\ [][NextContent]_vars

\* The pipeline of generate_content_task for a presentation, with every
\* extracted text and with every generation charged.
NextPipeline ==
  \/ ContentRequests({"PPT"})
  \/ HandlerSteps
  \/ TaskSteps(Costs \ {0})
  \/ ProfileSteps
  \/ ExtractSteps(Texts)

SpecPipeline == InitWith({<<DefaultBalance>>}) /\ [][NextPipeline]_vars

\* The entry points that create the owner's profile when it is missing:
\* the login signal, the profile view, generate_content,
\* generate_podcast_script and generate_content_task.
NextProfile ==
  \/ LoginRequest
  \/ \E r \in Slots : LoginCreate(r)
  \/ UserProfileRequest
  \/ ContentRequests({"PPT"})
  \/ ScriptRequests
  \/ HandlerSteps
  \/ ScriptSteps({0})
  \/ TaskSteps({0})
  \/ ProfileSteps
  \/ ExtractSteps(PlainTexts)

SpecProfile == Init /\ [][NextProfile]_vars

\* The handlers of generate_content alone, for every kind and an outsider:
\* the dispatched tasks stay in the queue.
NextHandlers ==
  \/ OptionRequests(Kinds \cup {"BAD"})
  \/ HandlerSteps

SpecHandlers == Init /\ [][NextHandlers]_vars

\* The two podcast stages: the script handler and the audio handler with its
\* task.
NextPodcast ==
  \/ ScriptRequests
  \/ AudioRequests
  \/ HandlerSteps
  \/ ScriptSteps(Costs)
  \/ TaskSteps(Costs)

SpecPodcast == Init /\ [][NextPodcast]_vars

\* No handler and no task is under way.
Quiet ==
  \A r \in Slots : /\ req[r].pc \in {"none", "done"}
                   /\ job[r].pc \in {"none", "done"}

\* A caller who sends the next request when the job of the last one has
\* ended.
SequentialRequests == Quiet /\ ContentRequests({"PPT"})

\* generate_content with every cost calculate_cost can report, one job at a
\* time.  The handler has reset the row before the job loads it, so the job
\* finds no URL to clean up.
NextCost ==
  \/ SequentialRequests
  \/ HandlerSteps
  \/ \E r \in Slots : TaskGet(r)
  \/ ProfileSteps
  \/ ExtractSteps(PlainTexts)
  \/ \E r \in Slots, ok \in BOOLEAN, c \in CostValues : TaskGenerate(r, ok, c)
  \/ \E r \in Slots, ok \in BOOLEAN : TaskUpload(r, ok)
  \/ \E r \in Slots : TaskSave(r)
  \/ \E r \in Slots, ok \in BOOLEAN : TaskRemove(r, ok)

SpecCost == InitWith({<<DefaultBalance>>}) /\ [][NextCost]_vars

\* generate_content, one request at a time, with redelivery of the job of a
\* row that ended in success.
NextRedelivery ==
  \/ SequentialRequests
  \/ HandlerSteps
  \/ TaskSteps({0})
  \/ ProfileSteps
  \/ ExtractSteps(PlainTexts)
  \/ \E r \in Slots : Redeliver(r)

SpecRedelivery == InitWith({<<DefaultBalance>>}) /\ [][NextRedelivery]_vars

\* Presentations requested for two projects of one owner, the jobs running
\* side by side on the workers of one host.
ProjectRequests ==
  \E p \in {1, 2} : GenerateContentRequest(p, TRUE, "PPT", TRUE)

NextFiles ==
  \/ ProjectRequests
  \/ HandlerSteps
  \/ TaskSteps({0})
  \/ ProfileSteps
  \/ ExtractSteps(PlainTexts)

SpecFiles == InitWith({<<DefaultBalance>>}) /\ [][NextFiles]_vars

\* The two voice selectors on every spelling of the three options.
NextVoice ==
  \/ \E oa \in Optional(Spellings(AccentNames)),
        og \in Optional(Spellings(GenderNames)),
        os \in Optional(Spellings(StyleNames)) : SelectPodcastVoice(oa, og, os)
  \/ \E accent \in Spellings(AccentNames), gender \in Spellings(GenderNames),
        style \in Spellings(StyleNames) : SelectServerVoice(accent, gender, style)

SpecVoice == Init /\ [][NextVoice]_vars

\* views.py:93-113, tasks.py:58-70  one request of a kind with a count
\* option, from validation to the prompt of the kind's routine: a rejected
\* request asks for nothing; for an accepted one `response` keeps the option
\* sent and the count the routine asks the AI for.
AskCount(kind, opt) ==
  /\ response' = IF ValidatedOption(kind, opt).valid
                   THEN <<"count", kind, opt,
                          RequestedCount(kind, validated_data(kind, opt))>>
                   ELSE <<"count", kind, opt, "400_invalid">>
  /\ UNCHANGED <<rows, profile, blobs, req, job, nreq, base, settled, server, chat, tmp>>

NextCount == \E kind \in DOMAIN CountField, opt \in CountRange : AskCount(kind, opt)

SpecCount == Init /\ [][NextCount]_vars

\* The MCQ endpoints of the experimental backend, in any order.
NextMcq ==
  \/ \E f \in Files, known \in BOOLEAN, n \in QuestionCounts, ai \in AiAnswers :
       GenerateMcqs(f, known, n, ai)
  \/ \E q \in EditIds, options \in EditOptionLists, retext \in BOOLEAN :
       EditMcq(q, options, retext)

SpecMcq == InitWith({<<DefaultBalance>>}) /\ [][NextMcq]_vars

\* Chat messages of both users on every project id.
NextChat ==
  \/ \E user \in Users, p \in ProjectIds : PostMessage(user, p)
  \/ ChatAnswer

SpecChat == Init /\ [][NextChat]_vars

\* Slides generated and regenerated for the documents.
NextSlides ==
  \E f \in Files, known \in BOOLEAN, slide_count \in SlideCounts,
     include_images \in BOOLEAN, n \in 1..2 :
    \E imaged \in SUBSET (1..n) :
      GenerateSlides(f, known, slide_count, include_images, n, imaged)

SpecSlides == Init /\ [][NextSlides]_vars

\* Podcast requests of the experimental backend, interleaved.
NextPodcasts ==
  \/ \E op \in {"generate", "regenerate"}, t \in Transcripts, known \in BOOLEAN :
       PodcastCall(op, t, known)
  \/ \E c \in 1..MaxCalls :
       \/ FindTranscript(c)
       \/ DeleteExisting(c)
       \/ InsertRecord(c)
       \/ MarkProcessing(c)
       \/ \E ok \in BOOLEAN : SynthesizeAudio(c, ok)
       \/ \E ok \in BOOLEAN : PodcastSet(c, ok)

SpecPodcasts == Init /\ [][NextPodcasts]_vars

\* ------------------------------------------------------------ observations
\* The step is the arrival of a request of handler `op`.
Arrives(op) ==
  /\ nreq' = nreq + 1
  /\ op = IF req'[nreq'].pc = "done" THEN response'[1] ELSE req'[nreq'].op

\* The arriving request is answered at once with `code`.
Answered(code) == req'[nreq'].pc = "done" /\ response'[2] = code

\* The step ends the execution of slot r's task (it returned or raised).
Finishes(r) == job[r].pc \notin {"none", "done"} /\ job'[r].pc = "done"

\* The step is the update_or_create of slot r's handler.
Upserts(r) == req[r].pc \in {"upsert", "create"} /\ req'[r].pc = "save"

Balance == profile[1]

\* the balance a handler finds: a missing profile is created with the default
OwnerBalance == GetOrCreateProfile(profile)[1]

\* the option lies outside the range its serializer declares
OutOfRange(ct, opt) ==
  /\ opt # <<>>
  /\ IF ct \in DOMAIN CountField
       THEN opt[1] < CountField[ct].min \/ opt[1] > CountField[ct].max
       ELSE opt[1] \notin LengthChoices

\* ------------------------------------------------------------------ claims
\* C1: in every reachable state there is at most one GeneratedContent row per
\* (project, content kind) pair, and a handler that has upserted holds the
\* primary key of that one row: a re-request for a pair that has a row
\* reuses the row instead of adding a second one.
C1_OneRowPerPair ==
  /\ \A i, j \in DOMAIN rows :
       (rows[i].project = rows[j].project /\ rows[i].kind = rows[j].kind) => i = j
  /\ \A r \in Slots :
       req[r].pc = "save" => RowIds(req[r].project, req[r].kind) = {req[r].rec.id}

\* a successful row was re-requested and is still the only row of its pair
C1_Witness ==
  \E r \in Slots :
    /\ job[r].pc = "queued" /\ job[r].prior # Null
    /\ req[r].pc = "save"
    /\ Cardinality(RowIds(req[r].project, req[r].kind)) = 1

\* C2: every task execution ends with a status write: at the step where
\* generate_content_task or generate_audio_task returns or raises, the row's
\* status is success or failure, never pending.
C2_TaskEndsTerminal ==
  [][\A r \in Slots : Finishes(r) => rows'[job[r].id].status \in Terminal]_vars

\* C3: for every content kind, a generate_content task in which no step
\* fails ends with exactly one row for the (project, kind), with status
\* success and a non-null URL.
C3_SuccessfulRunSucceeds ==
  [][\A r \in Slots :
       ( /\ job[r].task = "content"
         /\ Finishes(r)
         /\ \/ job[r].pc = "nofile"
            \/ job[r].pc = "remove" /\ rows' = rows )
       => LET row == rows'[job[r].id]
          IN /\ row.status = SUCCESS
             /\ row.url # Null
             /\ Cardinality(RowIds(row.project, row.kind)) = 1]_vars

\* C4 as stated: a generate_content or generate_podcast_script request for
\* one of the caller's projects, arriving while the balance is below the
\* threshold, is rejected with the insufficient-tokens error and changes
\* nothing; at or above the threshold it is not rejected for tokens.
C4_Original ==
  [][\A op \in {"content", "script"} :
       (Arrives(op) /\ ~Answered("404"))
       => IF OwnerBalance < THRESHOLD
            THEN /\ Answered("400_tokens")
                 /\ UNCHANGED <<rows, blobs, job, profile, settled>>
            ELSE ~Answered("400_tokens")]_vars

\* C4 amended: the same, for generate_podcast_script only when its payload
\* passes validation, which that handler checks before the balance.
C4_BalancePreCheck ==
  [][\A op \in {"content", "script"} :
       ( /\ Arrives(op) /\ ~Answered("404")
         /\ ~(op = "script" /\ Answered("400_invalid")) )
       => IF OwnerBalance < THRESHOLD
            THEN /\ Answered("400_tokens")
                 /\ UNCHANGED <<rows, blobs, job, profile, settled>>
            ELSE ~Answered("400_tokens")]_vars

\* a request was refused for tokens with the balance just below the
\* threshold, after a settlement took it there
C4_Witness ==
  /\ response \in {<<"content", "400_tokens">>, <<"script", "400_tokens">>}
  /\ profile # <<>> /\ Balance = THRESHOLD - 1
  /\ settled = 1

\* C5: whatever the interleaving of the settlements of one user, the stored
\* balance is the starting balance minus the sum of the settled costs.
C5_NoLostDecrement ==
  profile # <<>> => Balance = base - settled

\* one cost has been settled while a task that is about to settle its own
\* still holds the balance it read before that settlement
C5_Witness ==
  /\ settled = 1 /\ Balance = base - 1
  /\ \E r \in Slots : job[r].pc = "generate" /\ job[r].bal = base

\* C6: after it has enqueued the task, the handler writes nothing to the
\* row's status or URL: its last save leaves both as they are.
C6_HandlerLeavesRowAlone ==
  [][\A r \in Slots :
       (req[r].pc = "save" /\ req'[r].pc = "done")
       => LET i == req[r].rec.id
          IN rows'[i].status = rows[i].status /\ rows'[i].url = rows[i].url]_vars

\* C7: a row in success or failure changes its status or URL only by the
\* upsert of a new generation request for its (project, kind).
C7_TerminalUntilNewRequest ==
  [][\A i \in DOMAIN rows :
       ( /\ rows[i].status \in Terminal
         /\ rows'[i].status # rows[i].status \/ rows'[i].url # rows[i].url )
       => \E r \in Slots : Upserts(r) /\ req'[r].rec.id = i]_vars

\* C8: a generate_content_task that fails at download, extraction,
\* generation or upload leaves the row in failure with the URL the row had
\* when the task loaded it.
C8_FailureKeepsUrl ==
  [][\A r \in Slots :
       ( /\ job[r].task = "content"
         /\ job[r].pc \in {"extract", "generate", "upload"}
         /\ Finishes(r) )
       => /\ rows'[job[r].id].status = FAILURE
          /\ rows'[job[r].id].url = job[r].url0]_vars

\* every task is over, and a row sits in failure with the URL of a blob its
\* failed task had deleted before it failed
C8_Witness ==
  /\ \A r \in Slots : job[r].pc \in {"none", "done"}
  /\ \E i \in DOMAIN rows :
       /\ rows[i].kind = "PPT"
       /\ rows[i].status = FAILURE
       /\ rows[i].url # Null
       /\ KeyOfUrl(rows[i].url) \notin blobs

\* C9: a row whose status is failure has a null URL.
C9_FailureHasNullUrl ==
  \A i \in DOMAIN rows : rows[i].status = FAILURE => rows[i].url = Null

\* C10: the task dispatched by a re-request for a successful row with URL u
\* enters its cleanup step with u as the object to delete.
C10_TaskDeletesPriorBlob ==
  [][\A r \in Slots :
       (job[r].pc = "queued" /\ job'[r].pc # "queued" /\ job[r].prior # Null)
       => job'[r].pc = "cleanup" /\ job'[r].rec.url = job[r].prior]_vars

\* C11: an error of the old blob's deletion is swallowed: the cleanup step,
\* whatever its outcome, writes nothing to the table and hands over to the
\* next step of the task; and a task whose deletion raised and whose later
\* steps all succeed writes success with the URL of the blob it uploaded.
C11_CleanupErrorSwallowed ==
  [][\A r \in Slots :
       /\ (job[r].pc = "cleanup" /\ job'[r] # job[r])
          => job'[r].pc = AfterCleanup(r) /\ rows' = rows
       /\ (job[r].swallowed /\ job[r].pc = "save" /\ job'[r] # job[r])
          => LET row == rows'[job[r].id]
             IN /\ row.status = SUCCESS
                /\ row.url = UrlOfKey(TaskKey(r))]_vars

\* a task whose deletion raised has uploaded and written success
C11_Witness ==
  \E r \in Slots :
    /\ job[r].swallowed /\ job[r].pc = "remove"
    /\ rows[job[r].id].status = SUCCESS
    /\ rows[job[r].id].url = job[r].rec.url

\* C12: a generate_content request for a project the caller does not own, or
\* with a content_type outside the closed set, or with the kind's option
\* outside its declared range, is answered with an error at once: no job is
\* enqueued and no row is created or modified.
C12_InvalidRequestRejected ==
  [][\A p \in Projects, owned \in BOOLEAN, ct \in Kinds \cup {"BAD"} :
       \A opt \in OptionInputs(ct) :
         ( /\ GenerateContentRequest(p, owned, ct, OptionsValid(ct, opt))
           /\ \/ ~owned
              \/ ct \notin {"PPT", "FLASH", "MCQ", "POD"}
              \/ OutOfRange(ct, opt) )
         => /\ req'[nreq'] = DoneReq
            /\ response'[2] \in {"404", "400_tokens", "400_type", "400_invalid"}
            /\ UNCHANGED <<rows, job, blobs, settled>>]_vars

\* an invalid request was refused while the row of an earlier request waits
\* for its task, untouched
C12_Witness ==
  /\ response = <<"content", "400_invalid">>
  /\ Len(rows) = 1 /\ rows[1].status = PENDING /\ rows[1].task_id = 1
  /\ job[1].pc = "queued" /\ job[2].pc = "none"

C14_OneProfile ==
  [][/\ Len(profile') <= 1
     /\ profile # <<>> => profile' = profile
     /\ \A r \in Slots :
          (req[r].pc = "profile" /\ req'[r].pc = "done") => Len(profile') = 1
     /\ \A op \in {"login", "profile", "content", "script"} :
          ( /\ Arrives(op)
            /\ ~Answered("404")
            /\ ~(op = "script" /\ Answered("400_invalid"))
            /\ ~(op = "login" /\ req'[nreq'].pc = "profile") )
          => Len(profile') = 1
     /\ \A r \in Slots :
          (job[r].pc = "profile" /\ job'[r].pc = "extract")
          => Len(profile') = 1]_vars

\* two logins both found no profile; the first created it and the second
\* had its INSERT refused
C14_Witness ==
  /\ response = <<"login", "500">>
  /\ profile = <<DefaultBalance>>
  /\ req[1].pc = "done" /\ req[2].pc = "done"

\* C15: a task goes from its cleanup to the acquisition of the source, or to
\* the synthesis of the audio, only with the owner's profile in place and a
\* balance at or above the threshold.
C15_TaskRechecksBalance ==
  [][\A r \in Slots :
       ( /\ job[r].pc \in {"queued", "cleanup", "profile"}
         /\ job'[r].pc \in {"extract", "generate"} )
       => /\ profile' # <<>>
          /\ ~InsufficientTokens(profile'[1])]_vars

\* what the generate_content handler of slot r may do to the table and the
\* queue in one step: nothing before its upsert; at the upsert, its row
\* pending with a null URL and its one job enqueued for that row; at its
\* last save, the job's id on the row, still pending with a null URL
C16_RowAndQueue(r) ==
  LET id == IF req[r].pc = "save" THEN req[r].rec.id ELSE req'[r].rec.id
  IN /\ \A i \in DOMAIN rows : i # id => rows'[i] = rows[i]
     /\ \A q \in Slots : q # r => job'[q] = job[q]
     /\ IF Upserts(r)
          THEN /\ DOMAIN rows' = DOMAIN rows \cup {id}
               /\ rows'[id].project = req[r].project
               /\ rows'[id].kind = req[r].kind
               /\ rows'[id].status = PENDING /\ rows'[id].url = Null
               /\ job[r].pc = "none" /\ job'[r].pc = "queued"
               /\ job'[r].id = id
          ELSE IF req[r].pc = "save"
            THEN /\ DOMAIN rows' = DOMAIN rows
                 /\ rows'[id].status = PENDING /\ rows'[id].url = Null
                 /\ rows'[id].task_id = r
                 /\ job' = job
            ELSE rows' = rows /\ job' = job

\* the step is one of the generate_content handler of slot r
C16_HandlerStep(r) ==
  \/ Arrives("content") /\ r = nreq'
  \/ req[r].op = "content" /\ req'[r] # req[r]

\* C16 as stated: a step of the generate_content handler touches its row and
\* the queue as described and nothing else: no blob, no balance, no profile.
C16_Original ==
  [][\A r \in Slots :
       C16_HandlerStep(r)
       => /\ C16_RowAndQueue(r)
          /\ UNCHANGED <<blobs, settled, profile>>]_vars

\* C16 amended: the same, except that the handler creates the owner's
\* profile, with the default balance, when the owner has none; an existing
\* profile is left as it is.
C16_HandlerFrame ==
  [][\A r \in Slots :
       C16_HandlerStep(r)
       => /\ C16_RowAndQueue(r)
          /\ UNCHANGED <<blobs, settled>>
          /\ IF profile = <<>> /\ nreq' # nreq /\ ~Answered("404")
               THEN profile' = <<DefaultBalance>>
               ELSE profile' = profile]_vars

\* the handler has answered 202 while its job waits in the queue: the row is
\* pending with the job's id, and the profile it created is the only other
\* thing that changed
C16_Witness ==
  /\ response = <<"content", "202">>
  /\ base = DefaultBalance /\ profile = <<DefaultBalance>>
  /\ job[1].pc = "queued" /\ req[1].pc = "done"
  /\ rows[1].status = PENDING /\ rows[1].url = Null /\ rows[1].task_id = 1
  /\ blobs = {} /\ settled = 0

\* C17: the podcast script handler (generate_podcast_script) creates or
\* modifies no GeneratedContent row and enqueues no job; when it succeeds it
\* lowers the caller's balance by the cost computed from the reported usage
\* in the step that returns the script (200); and no step of the audio task
\* (generate_audio_task) changes a balance.
C17_ScriptStep(r) ==
  \/ Arrives("script") /\ r = nreq'
  \/ req[r].op = "script" /\ req'[r] # req[r]

C17_AudioTaskStep(r) == job[r].task = "audio" /\ job'[r] # job[r]

C17_ScriptSettlesAudioDoesNot ==
  [][\A r \in Slots :
       /\ C17_ScriptStep(r) => rows' = rows /\ job' = job /\ blobs' = blobs
       /\ req[r].pc = "script" =>
            \A c \in Costs :
              ScriptStage(r, TRUE, c) =>
                /\ Balance' = Balance - c
                /\ response' = <<"script", "200">>
                /\ req'[r].pc = "done"
       /\ C17_AudioTaskStep(r) => profile' = profile /\ settled' = settled]_vars

\* a script was returned and charged, no row came of it, and the audio task
\* of a later request has written its file and its row with the balance where
\* the script stage left it
C17_Witness ==
  /\ settled = 1 /\ profile = <<base - 1>>
  /\ req[1].pc = "done" /\ job[1].task = "none"
  /\ job[2].task = "audio" /\ job[2].pc = "remove"
  /\ Len(rows) = 1 /\ rows[1].status = SUCCESS /\ rows[1].task_id = 2

\* C18: for every (accent, gender, style) triple the voice chosen for the
\* synthesis is the table's entry when the triple is in the table and the
\* default voice en-US-AriaNeural otherwise; every call yields a voice.
\* As stated, with the triple looked up as it was sent:
C18_Selected == response # <<>> /\ response[1] \in {"voice_name", "voice_used"}

C18_Original ==
  C18_Selected =>
    response[3] = IF response[2] \in DOMAIN voice_map
                    THEN voice_map[response[2]] ELSE DefaultVoice

\* the table keys spelled with the letters of the triple, whatever its case
C18_SameLetters(t) ==
  {k \in DOMAIN voice_map : \A i \in 1..3 : k[i].letters = t[i].letters}

\* C18 as the code has it: generate_podcast_audio_from_script looks the
\* triple up as sent; generate_audio_from_script of server.py looks it up
\* regardless of letter case, so that a triple that differs from a table key
\* in case only gets that key's voice; any other triple gets the default.
C18_VoiceSelection ==
  C18_Selected =>
    LET t == response[2]
        keys == IF response[1] = "voice_used" THEN C18_SameLetters(t)
                ELSE {k \in DOMAIN voice_map : k = t}
    IN /\ keys # {} => \A k \in keys : response[3] = voice_map[k]
       /\ keys = {} => response[3] = DefaultVoice

\* server.py's selector was sent a capitalised accent and chose the British
\* voice of the table, not the default
C18_Witness ==
  response = <<"voice_used", <<Cap("british"), W("female"), W("neutral")>>,
               "en-GB-SoniaNeural">>

\* C19: calculate_cost returns 0 for every model identifier without an entry
\* in the price table, whatever the usage record, and for a priced model
\* prompt_tokens x input price + completion_tokens x output price; a cost of
\* zero makes generate_content_task write no balance.  Stated on the step in
\* which the task settles the cost calculate_cost returned for (m, u): what
\* the step charges is that amount, and charging nothing writes nothing.
C19_CostAndSettlement ==
  [][\A r \in Slots :
       (job[r].task = "content" /\ job[r].pc = "generate"
          /\ job'[r].pc = "upload") =>
         \A m \in ModelNames, u \in Usages :
           TaskGenerate(r, TRUE, calculate_cost(m, u)) =>
             /\ m \notin DOMAIN OPENAI_PRICING => settled' = settled
             /\ m \in DOMAIN OPENAI_PRICING =>
                  settled' - settled =
                    u.prompt_tokens * OPENAI_PRICING[m].input
                      + u.completion_tokens * OPENAI_PRICING[m].output
             /\ settled' = settled =>
                  /\ SettlementWrites(calculate_cost(m, u)) = {}
                  /\ profile' = profile]_vars

\* the first task was charged for one prompt token and one completion token
\* of the priced model and waits for its upload
C19_Witness ==
  /\ settled = OPENAI_PRICING["gpt-5-nano"].input
                 + OPENAI_PRICING["gpt-5-nano"].output
  /\ profile = <<base - settled>>
  /\ nreq = 1 /\ job[1].pc = "upload"
  /\ rows[1].status = PENDING

\* C20: one execution of generate_content_task takes its steps strictly in
\* the order cleanup, profile fetch, download and extraction, generation and
\* cost settlement, upload, status write: a step that does not end the task
\* leads to the next step of that order and to no other; SUCCESS is written
\* only by the step after an upload that went through; the cost is settled
\* only with the generation, before the upload, so an upload that fails ends
\* the task with FAILURE written and the balance already lowered.
C20_Order == <<"queued", "cleanup", "profile", "extract", "generate",
               "upload", "save", "remove", "done">>

C20_Rank(pc) == CHOOSE i \in DOMAIN C20_Order : C20_Order[i] = pc

\* tasks that have settled their cost and not ended
C20_Settled(j) == {r \in Slots : j[r].task = "content"
                                  /\ j[r].pc \in {"upload", "save", "remove"}}

C20_StepsInOrder ==
  [][\A r \in Slots :
       (job[r].task = "content" /\ job'[r] # job[r]) =>
         LET id == job[r].id
             from == job[r].pc
             to == job'[r].pc
         IN /\ C20_Rank(to) > C20_Rank(from)
            /\ to # "done" =>
                 \/ C20_Rank(to) = C20_Rank(from) + 1
                 \/ from = "queued" /\ to = "profile"
            /\ (rows'[id].status = SUCCESS /\ rows[id].status # SUCCESS) =>
                 from = "save"
            /\ (from = "upload" /\ to = "save") => TaskKey(r) \in blobs'
            /\ settled' # settled => from = "generate" /\ to = "upload"
            /\ blobs' # blobs /\ from # "cleanup" =>
                 from = "upload" /\ to = "save"
            /\ settled' >= Cardinality(C20_Settled(job'))
            /\ (from = "upload" /\ to = "done") =>
                 /\ rows'[id].status = FAILURE
                 /\ blobs' = blobs
                 /\ settled >= Cardinality(C20_Settled(job))
                 /\ Balance' = base - settled]_vars

\* the only task there was settled its cost and then failed at the upload:
\* FAILURE is written, no blob exists, and the balance is lower by the cost
C20_Witness ==
  /\ nreq = 1 /\ job[1].pc = "done" /\ req[1].pc = "done"
  /\ rows[1].status = FAILURE /\ rows[1].task_id = 1
  /\ blobs = {}
  /\ settled = 1 /\ profile = <<base - 1>>

\* C21: a failure to remove the transient generated file, after the upload
\* and the SUCCESS write, is not fatal: the step that ends the task after its
\* status write, whether or not the removal raised, leaves the row as the
\* task wrote it (status success, the computed URL).
C21_RemoveFailureNotFatal ==
  [][\A r \in Slots :
       (job[r].pc = "remove" /\ Finishes(r)) => rows' = rows]_vars

\* C22: a generate_content_task executed again for a row it left in success
\* (the row has its URL when the execution loads it), with every step
\* succeeding again, writes the row as it was: status success, the same URL,
\* and the artifact is stored under the key derived from project id and
\* record id.
C22_RedeliveryIdempotent ==
  [][\A r \in Slots :
       ( /\ job[r].task = "content" /\ job[r].pc = "save"
         /\ job[r].url0 # Null /\ job'[r] # job[r] ) =>
         LET id == job[r].id
         IN /\ rows' = rows
            /\ rows'[id].status = SUCCESS
            /\ rows'[id].url = job[r].url0
            /\ rows'[id].url = UrlOfKey(GeneratedKey(rows[id].project, id,
                                                     FileName(rows[id].kind)))
            /\ KeyOfUrl(rows'[id].url) \in blobs'
            /\ Cardinality(blobs') = 1]_vars

\* the redelivered execution has ended: the row is in success with the URL
\* of the one stored artifact
C22_Witness ==
  /\ response = <<"redelivered", 1>>
  /\ nreq = 1 /\ job[1].pc = "done"
  /\ rows[1].status = SUCCESS /\ rows[1].task_id = 1
  /\ blobs = {KeyOfUrl(rows[1].url)}

\* C24: in every reachable state, overlapping jobs for one row included, a
\* row whose status is success has a URL, and the object stored under that
\* URL's key is present in storage.
C24_SuccessBlobExists ==
  \A i \in DOMAIN rows :
    rows[i].status = SUCCESS =>
      rows[i].url # Null /\ KeyOfUrl(rows[i].url) \in blobs

\* C26: when a single job has been dispatched, and the request that
\* dispatched it and the job itself have both finished, the row's task_id is
\* the id of that job, whichever of the handler's task-id write and the job's
\* status write came first.
C26_TaskIdIsLastDispatched ==
  \A r \in Slots :
    ( /\ req[r].pc = "done" /\ job[r].pc = "done"
      /\ \A q \in Slots \ {r} : /\ job[q].pc = "none"
                                /\ req[q].pc \in {"none", "done"} ) =>
      \A i \in DOMAIN rows : rows[i].task_id = r

\* C28: for a presentation request with a valid slides_count n (3 <= n <= 20)
\* the count the generation routine asks the AI for is n.
C28_SlidesCountReachesRoutine ==
  ( /\ response # <<>> /\ response[1] = "count" /\ response[2] = "PPT"
    /\ response[3] # <<>> /\ response[3][1] \in 3..20 ) =>
      response[4] = response[3][1]

\* C23: after any sequence of generate-mcqs and edit-mcq operations every
\* stored MCQ has exactly one option marked correct, and an edit whose count
\* of correct options is not 1 is rejected without changing the stored MCQs.
C23_OneCorrectOption ==
  [][ /\ \A q \in DOMAIN mcqs_collection' :
           CorrectCount(mcqs_collection'[q].options) = 1
      /\ \A q \in EditIds, options \in EditOptionLists, retext \in BOOLEAN :
           (CorrectCount(options) # 1 /\ EditMcq(q, options, retext)) =>
             /\ mcqs_collection' = mcqs_collection
             /\ response'[2] # "200" ]_vars

\* an MCQ whose flags were reset by the generation stands next to one that an
\* edit has given two options
C23_Witness ==
  /\ response = <<"edit_mcq", "200">>
  /\ <<"f1", 1>> \in DOMAIN mcqs_collection
  /\ <<"f1", 2>> \in DOMAIN mcqs_collection
  /\ mcqs_collection[<<"f1", 1>>].options = <<FALSE, TRUE>>
  /\ mcqs_collection[<<"f1", 2>>].options = <<FALSE, FALSE, TRUE, FALSE>>
  /\ Cardinality(McqsOf("f1")) = 5

\* C27: a chat session exists only for a project owned by the session's
\* user, and an AI answer is stored only in a session whose user owns the
\* project its document came from.
C27_OnlyOwnProjects ==
  /\ \A p \in DOMAIN chat_sessions : chat_sessions[p] = ProjectOwner[p]
  /\ \A i \in DOMAIN chat_messages :
       chat_messages[i].sender = "AI" =>
         chat_sessions[chat_messages[i].session]
           = ProjectOwner[chat_messages[i].document]

\* C29: a successful generate_slides for document F leaves one slides record
\* for F and leaves the slides records and the stored slide images of every
\* other document as they were.
C29_OnlyOwnSlidesReplaced ==
  [][ (response'[1] = "generate_slides" /\ response'[2] = "200") =>
        LET f == response'[3]
        IN /\ f \in DOMAIN slides_collection'
           /\ \A g \in Files \ {f} :
                /\ g \in DOMAIN slides_collection' <=> g \in DOMAIN slides_collection
                /\ g \in DOMAIN slides_collection =>
                     slides_collection'[g] = slides_collection[g]
                /\ ImagesOf(slide_images_collection', g)
                     = ImagesOf(slide_images_collection, g) ]_vars

\* the record a finishing request answers for: the one it created
\* (generate, by podcast_id) or the one its filter selects (regenerate)
C30_Record(coll, call, c) ==
  First({i \in DOMAIN coll :
           IF call.op = "generate" THEN coll[i].podcast_id = c
           ELSE coll[i].transcript_id = call.transcript_id})

C30_Ended(rec) ==
  /\ ~rec.is_processing
  /\ rec.processing_status \in {"completed", "failed"}
  /\ rec.processing_status = "completed" => rec.audio_file_path # <<>>

C30_Returns(c) == calls[c].pc \in {"audio", "sets"} /\ calls'[c].pc = "done"

\* C30 as stated: when a generate or regenerate request has returned or
\* raised, the record has is_processing false and status completed or failed,
\* and a completed record has a non-empty audio_file_path.
C30_Original ==
  [][\A c \in DOMAIN calls :
       C30_Returns(c) =>
         LET i == C30_Record(podcasts_collection', calls[c], c)
         IN i # 0 => C30_Ended(podcasts_collection'[i])]_vars

\* C30: when a generate request returns or raises, the record it created is
\* no longer in status generating: it has ended (is_processing false, status
\* completed or failed, a completed record with a non-empty audio_file_path)
\* or a regenerate request for the same transcript that is still under way
\* has marked it regenerating.  When a regenerate request returns or raises,
\* the record it updated has ended.  When no request is under way every
\* record has ended.
C30_LeavesGenerating ==
  [][ /\ \A c \in DOMAIN calls :
           C30_Returns(c) =>
             LET i == C30_Record(podcasts_collection', calls[c], c)
                 rec == podcasts_collection'[i]
             IN i # 0 =>
                  \/ C30_Ended(rec)
                  \/ /\ calls[c].op = "generate"
                     /\ rec.processing_status = "regenerating"
                     /\ \E d \in DOMAIN calls' :
                          /\ calls'[d].op = "regenerate"
                          /\ calls'[d].pc = "audio"
                          /\ calls'[d].transcript_id = rec.transcript_id
      /\ (\A c \in DOMAIN calls' : calls'[c].pc = "done") =>
           \A i \in DOMAIN podcasts_collection' :
             C30_Ended(podcasts_collection'[i]) ]_vars

\* a generated podcast whose audio a later request regenerated
C30_Witness ==
  /\ Len(calls) = 2 /\ \A c \in DOMAIN calls : calls[c].pc = "done"
  /\ calls[1].op = "generate" /\ calls[2].op = "regenerate"
  /\ response = <<"regenerate", "200", 2>>
  /\ Len(podcasts_collection) = 1
  /\ podcasts_collection[1].podcast_id = 1
  /\ podcasts_collection[1].processing_status = "completed"
  /\ podcasts_collection[1].audio_file_path = AudioPath(2)

\* C25: the file a job uploads under its record's key is the one generated
\* from that record's own project; no other job has overwritten or removed
\* it between the job's generation step and its upload.
C25_UploadsOwnArtifact ==
  [][\A r \in Slots :
       (job[r].pc = "upload" /\ job'[r].pc = "save") =>
         <<LocalFile(r), rows[job[r].id].project>> \in tmp]_vars
====
